---- MODULE Spec2Model ----
(***************************************************************************)
(* Model of the AIMotionMind basketball shot analysis.                     *)
(*                                                                         *)
(*  - KeyframeDetector.detect_keyframes and its detectors                  *)
(*    (src/sports/basketball/keyframe_detector.py)                         *)
(*  - TaskManager and its worker threads                                   *)
(*    (src/backend/services/task_manager.py), running                      *)
(*    AnalysisService.analyze_video                                        *)
(*    (src/backend/services/analysis_service.py)                           *)
(*  - BasketballMetrics: velocity, rhythm, force sequence and energy       *)
(*    transfer (src/sports/basketball/metrics.py), as called by            *)
(*    BasketballShotAnalyzer.analyze_frames                                *)
(*    (src/sports/basketball/shot_analyzer.py)                             *)
(*                                                                         *)
(* Units.  Normalized landmark coordinates (y in [0,1]) are integers in    *)
(* thousandths, so the code's 1.0 is 1000 and its 0.01 is 10.  Angles are  *)
(* whole degrees, velocities whole px/s.  Frame and keyframe indices are   *)
(* 0-based as in the code; the frame at index i is frames[i+1].            *)
(* An optional value (a missing dict key, None) is the empty sequence and  *)
(* a present value v is <<v>>.                                             *)
(***************************************************************************)
EXTENDS Integers, Sequences, FiniteSets, TLC

VARIABLES
    frames,      \* frames_data handed to detect_keyframes
    profile,     \* which frame fields the input sequence varies
    kfpc,        \* "input" while the sequence is built, "done" after the call
    kfres,       \* outcome of detect_keyframes
    tasks,       \* TaskManager.tasks: task_id -> task dict
    created,     \* task ids handed out by create_task so far
    wpc,         \* position of each task's worker thread
    wfail,       \* the exception the callback of a task is raising, if any
    force,       \* outcome of detect_force_sequence on frames and kfres
    mpc,         \* "input" before a metrics function is called, "done" after
    marg,        \* the arguments of the metrics function
    mres         \* what the metrics function returned

kfvars == <<frames, profile, kfpc, kfres, force>>
tmvars == <<tasks, created, wpc, wfail>>
mvars == <<mpc, marg, mres>>
vars == <<frames, profile, kfpc, kfres, force, tasks, created, wpc, wfail,
          mpc, marg, mres>>

----------------------------------------------------------------------------
(* Bounds *)

MaxFrames == 6

\* largest initiation frame handed to _analyze_movement_pattern
MaxInitFrame == 4

\* longest frame list handed to calculate_energy_transfer_efficiency
MaxEnergyFrames == 5

\* longest position series handed to calculate_velocity
MaxPositions == 4

\* most keyframes in a dict handed to calculate_rhythm_metrics, and their
\* largest index
MaxRhythmKeyframes == 3
MaxRhythmIndex == 2

----------------------------------------------------------------------------
(* Sequence helpers *)

Range(s) == {s[i] : i \in 1..Len(s)}

MaxOf(s) == CHOOSE m \in Range(s) : \A x \in Range(s) : x <= m

MinOf(s) == CHOOSE m \in Range(s) : \A x \in Range(s) : m <= x

\* numpy.argmax: 0-based position of the first occurrence of the maximum
ArgMax(s) == (CHOOSE i \in 1..Len(s) :
                 /\ s[i] = MaxOf(s)
                 /\ \A j \in 1..(i-1) : s[j] # MaxOf(s)) - 1

\* numpy.argmin: 0-based position of the first occurrence of the minimum
ArgMin(s) == (CHOOSE i \in 1..Len(s) :
                 /\ s[i] = MinOf(s)
                 /\ \A j \in 1..(i-1) : s[j] # MinOf(s)) - 1

Max2(a, b) == IF a >= b THEN a ELSE b

Min2(a, b) == IF a <= b THEN a ELSE b

Abs(a) == IF a >= 0 THEN a ELSE -a

\* mutant: the detectors get the whole list
WholeList(fs, a) == fs

\* frames_data[a:]
Clip(fs, a) == SubSeq(fs, a + 1, Len(fs))

\* [max(0, v) for v in s]
PositivePart(s) == [i \in 1..Len(s) |-> Max2(0, s[i])]

----------------------------------------------------------------------------
(* Frame records and the per-frame reads of the detectors *)

None == <<>>

Some(v) == <<v>>

Present(o) == o # <<>>

\* f.get("angles", {}).get("elbow_angle", 180)
ElbowAngle(f) == IF Present(f.ea) THEN f.ea[1] ELSE 180

\* f.get("angles", {}).get("knee_angle", 180)
KneeAngle(f) == IF Present(f.ka) THEN f.ka[1] ELSE 180

\* f.get("com_height", 0)
ComHeight(f) == IF Present(f.com) THEN f.com[1] ELSE 0

\* f.get("velocities", {}).get("right_wrist", 0)
WristVelocity(f) == IF Present(f.vw) THEN f.vw[1] ELSE 0

\* wrist['y'] if wrist else 1.0
WristHeightOr1(f) == IF Present(f.rw) THEN f.rw[1] ELSE 1000

\* right_wrist['y'] if right_wrist else 0.0     (_detect_ball_lowest)
BallHeightOr0(f) == IF Present(f.rw) THEN f.rw[1] ELSE 0

\* landmarks.get(...) on a frame whose landmarks value is None raises
\* AttributeError: f.get("landmarks", {}) returns the stored None
LandmarksRaise(fs) == \E i \in 1..Len(fs) : ~fs[i].lm

----------------------------------------------------------------------------
(* The detectors.  Each takes the list it is called on and returns None or *)
(* Some(index into that list); its frame_data is the frame at that index   *)
(* of the same list.                                                       *)

DetectBallLowest(fs) ==
    LET ball_heights == [i \in 1..Len(fs) |-> BallHeightOr0(fs[i])]
    IN  IF Len(ball_heights) = 0 \/ MaxOf(ball_heights) = 0
        THEN None
        ELSE Some(ArgMax(ball_heights))

DetectSquatDeepest(fs) ==
    LET com_heights == [i \in 1..Len(fs) |-> ComHeight(fs[i])]
    IN  IF Len(com_heights) = 0 \/ MaxOf(com_heights) = 0
        THEN None
        ELSE Some(ArgMax(com_heights))

\* total_rise > 0.01
RiseThreshold == 10


\* mutant: total_rise >= 0.01
LiftAtOrEqual(h, i) ==
    /\ h[i+1] > h[i+2]
    /\ h[i+2] > h[i+3]
    /\ h[i+3] > h[i+4]
    /\ h[i+1] - h[i+4] >= RiseThreshold

\* the test of one loop iteration of _detect_lift_start, i 0-based
LiftAt(h, i) ==
    /\ h[i+1] > h[i+2]
    /\ h[i+2] > h[i+3]
    /\ h[i+3] > h[i+4]
    /\ h[i+1] - h[i+4] > RiseThreshold

RECURSIVE LiftScan(_, _)
\* for i in range(search_after, len(ball_heights) - 3)
LiftScan(h, i) ==
    IF i >= Len(h) - 3 THEN None
    ELSE IF LiftAt(h, i) THEN Some(i)
    ELSE LiftScan(h, i + 1)

DetectLiftStart(fs, search_after) ==
    LET ball_heights == [i \in 1..Len(fs) |-> WristHeightOr1(fs[i])]
    IN  LiftScan(ball_heights, search_after)

\* all([right_wrist, left_shoulder, right_shoulder, left_hip, right_hip])
HeightValid(f) ==
    Present(f.rw) /\ Present(f.ls) /\ Present(f.rs) /\ Present(f.lh) /\ Present(f.rh)

\* abs(wrist_y - target_y), times 200 to stay in the integers:
\* chest target = shoulder_y + (hip_y - shoulder_y) * 0.33 with
\* shoulder_y, hip_y the left/right means; shoulder target = right_shoulder y
Distance(f, height_type) ==
    IF height_type = "chest"
    THEN Abs(200 * f.rw[1]
             - (100 * (f.ls[1] + f.rs[1])
                + 33 * ((f.lh[1] + f.rh[1]) - (f.ls[1] + f.rs[1]))))
    ELSE IF height_type = "shoulder"
    THEN Abs(200 * f.rw[1] - 200 * f.rs[1])
    ELSE Abs(200 * f.rw[1] - 200 * 1000)

RECURSIVE HeightScan(_, _, _, _)
\* for i in range(search_after, len(frames_data)); best is best_idx, and
\* min_distance is the distance at best (infinity while best is None)
HeightScan(fs, height_type, i, best) ==
    IF i >= Len(fs) THEN best
    ELSE IF /\ i > 0
            /\ Present(fs[i+1].rw)
            /\ HeightValid(fs[i+1])
            /\ \/ ~Present(best)
               \/ Distance(fs[i+1], height_type) < Distance(fs[best[1]+1], height_type)
         THEN HeightScan(fs, height_type, i + 1, Some(i))
         ELSE HeightScan(fs, height_type, i + 1, best)

\* mutant: the scan starts at the window start whatever search_after is
DetectBallAtHeightFromStart(fs, height_type, search_after) ==
    HeightScan(fs, height_type, 0, None)

DetectBallAtHeight(fs, height_type, search_after) ==
    HeightScan(fs, height_type, search_after, None)

DetectElbowMaxBend(fs) ==
    LET elbow_angles == [i \in 1..Len(fs) |-> ElbowAngle(fs[i])]
    IN  IF Len(elbow_angles) = 0 \/ MinOf(elbow_angles) >= 180
        THEN None
        ELSE Some(ArgMin(elbow_angles))

\* [0] + [a[i] - a[i-1] for i in range(1, len(a))]
AngularVelocities(a) ==
    <<0>> \o [i \in 1..(Len(a) - 1) |-> a[i+1] - a[i]]

DetectElbowExtensionMax(fs) ==
    LET elbow_angles == [i \in 1..Len(fs) |-> ElbowAngle(fs[i])]
        positive_velocities == PositivePart(AngularVelocities(elbow_angles))
    IN  IF MaxOf(positive_velocities) = 0
        THEN None
        ELSE Some(ArgMax(positive_velocities))

\* wrist['y'] - elbow['y'] if wrist and elbow else -1.0
WristElbowDiff(f) ==
    IF Present(f.rw) /\ Present(f.re) THEN f.rw[1] - f.re[1] ELSE -1000

DetectWristSnap(fs) ==
    LET wrist_elbow_diffs == [i \in 1..Len(fs) |-> WristElbowDiff(fs[i])]
        search_start == Len(fs) \div 2
    IN  IF Len(wrist_elbow_diffs) = 0 \/ MaxOf(wrist_elbow_diffs) <= 0
        THEN None
        ELSE Some(search_start
                  + ArgMax(SubSeq(wrist_elbow_diffs, search_start + 1, Len(fs))))

RECURSIVE FirstAtLeast(_, _, _)
\* for i, angle in enumerate(a): if angle >= limit: return i
FirstAtLeast(a, limit, i) ==
    IF i >= Len(a) THEN None
    ELSE IF a[i+1] >= limit THEN Some(i)
    ELSE FirstAtLeast(a, limit, i + 1)

\* np.argmax of an empty list raises ValueError
ArmFullExtensionRaises(fs) == Len(fs) = 0

DetectArmFullExtension(fs) ==
    LET elbow_angles == [i \in 1..Len(fs) |-> ElbowAngle(fs[i])]
        first == FirstAtLeast(elbow_angles, 170, 0)
    IN  IF Present(first) THEN first
        ELSE IF elbow_angles[ArgMax(elbow_angles) + 1] > 155
        THEN Some(ArgMax(elbow_angles))
        ELSE None

RECURSIVE TurnScan(_, _)
\* for i in range(1, len(v) - 1): the sign change from negative to
\* non-negative that stays non-negative for the next sample
TurnScan(v, i) ==
    IF i >= Len(v) - 1 THEN None
    ELSE IF /\ v[i] < 0
            /\ v[i+1] >= 0
            /\ i + 1 < Len(v)
            /\ v[i+2] >= 0
         THEN Some(i)
         ELSE TurnScan(v, i + 1)

DetectLegPowerStart(fs) ==
    LET knee_angles == [i \in 1..Len(fs) |-> KneeAngle(fs[i])]
        angle_velocities == AngularVelocities(knee_angles)
        turn == TurnScan(angle_velocities, 1)
        positive_velocities == PositivePart(angle_velocities)
    IN  IF Present(turn) THEN turn
        ELSE IF MaxOf(positive_velocities) > 0
        THEN Some(ArgMax(positive_velocities))
        ELSE None

\* The release score of window frame i (0-based), times 2000:
\*   (1 - wrist_y) * 40 + min(max(0, elbow_velocity * 3.5), 35)
\*   + (min(abs(wrist_velocity) * 250, 25) if wrist_velocity < 0 else 0)
ReleaseScore(fs, i) ==
    LET elbow_angles == [k \in 1..Len(fs) |-> ElbowAngle(fs[k])]
        elbow_velocities == AngularVelocities(elbow_angles)
        wv == WristVelocity(fs[i+1])
    IN  80 * (1000 - WristHeightOr1(fs[i+1]))
        + Min2(Max2(0, 7000 * elbow_velocities[i+1]), 70000)
        + (IF wv < 0 THEN Min2(Abs(wv) * 500000, 50000) ELSE 0)


\* mutant: the last occurrence of the maximum score wins
DetectReleaseLast(fs, search_after) ==
    LET scores == [i \in 1..Len(fs) |->
                      IF i - 1 < search_after THEN 0 ELSE ReleaseScore(fs, i - 1)]
    IN  IF Len(scores) = 0 \/ MaxOf(scores) = 0
        THEN None
        ELSE Some((CHOOSE i \in 1..Len(scores) :
                      /\ scores[i] = MaxOf(scores)
                      /\ \A j \in (i+1)..Len(scores) : scores[j] # MaxOf(scores)) - 1)

DetectRelease(fs, search_after) ==
    \* scores = [0] * search_after + scores
    LET scores == [i \in 1..Len(fs) |->
                      IF i - 1 < search_after THEN 0 ELSE ReleaseScore(fs, i - 1)]
    IN  IF Len(scores) = 0 \/ MaxOf(scores) = 0
        THEN None
        ELSE Some(ArgMax(scores))

DetectFollowThrough(fs) ==
    LET wrist_heights == [i \in 1..Len(fs) |-> WristHeightOr1(fs[i])]
    IN  IF Len(wrist_heights) = 0 \/ MinOf(wrist_heights) >= 1000
        THEN None
        ELSE Some(ArgMin(wrist_heights))


\* mutant: only idx1 > idx2 is rejected
DetectMidpointLoose(idx1, idx2) ==
    IF idx1 > idx2 THEN None ELSE Some((idx1 + idx2) \div 2)

\* _detect_midpoint on the absolute indices of two keyframes
DetectMidpoint(idx1, idx2) ==
    IF idx1 >= idx2 THEN None ELSE Some((idx1 + idx2) \div 2)

----------------------------------------------------------------------------
(* detect_keyframes *)

\* One entry of the keyframes dict: its key, its 'index' and the position
\* in frames_data of the frame stored as 'frame_data' (-1 for the {} the
\* fallback anchor stores when frames_data is empty)
Kf(name, index, frame) == [name |-> name, index |-> index, frame |-> frame]

\* 'name' in keyframes, on a keyframes dict kept as the list of its entries
KfHas(kfs, name) == \E i \in 1..Len(kfs) : kfs[i].name = name

\* keyframes[name]['index']
KfIndex(kfs, name) == (CHOOSE k \in Range(kfs) : k.name = name).index


\* mutant: the window-relative index is stored without the anchor offset
RebasedNoOffset(name, kf, ball_lowest_idx) ==
    IF Present(kf)
    THEN <<[name |-> name, index |-> kf[1], frame |-> ball_lowest_idx + kf[1]]>>
    ELSE <<>>

\* if kf: kf['index'] += ball_lowest_idx; keyframes[name] = kf
\* (kf['frame_data'] is clipped_frames[rel], the frame at ball_lowest_idx + rel)
Rebased(name, kf, ball_lowest_idx) ==
    IF Present(kf)
    THEN <<Kf(name, kf[1] + ball_lowest_idx, ball_lowest_idx + kf[1])>>
    ELSE <<>>

\* if kf: keyframes[name] = kf, for a midpoint of absolute indices
\* (its frame_data is frames_data[mid_idx])
Midpoint(name, kf1, kf2) ==
    IF Len(kf1) > 0 /\ Len(kf2) > 0
    THEN LET kf == DetectMidpoint(kf1[1].index, kf2[1].index)
         IN  IF Present(kf) THEN <<Kf(name, kf[1], kf[1])>> ELSE <<>>
    ELSE <<>>


RECURSIVE InsertBeforeEqual(_, _)
\* mutant: an unstable sort, k goes in front of the entries of equal index
InsertBeforeEqual(s, k) ==
    IF s = <<>> THEN <<k>>
    ELSE IF Head(s).index < k.index
         THEN <<Head(s)>> \o InsertBeforeEqual(Tail(s), k)
         ELSE <<k>> \o s

RECURSIVE InsertByIndex(_, _)
\* place k behind every entry whose index is <= k.index
InsertByIndex(s, k) ==
    IF s = <<>> THEN <<k>>
    ELSE IF Head(s).index <= k.index
         THEN <<Head(s)>> \o InsertByIndex(Tail(s), k)
         ELSE <<k>> \o s

RECURSIVE SortFromFront(_)
\* mutant: a sort that places an entry behind the later entries of equal index
SortFromFront(kfs) ==
    IF kfs = <<>> THEN <<>>
    ELSE InsertByIndex(SortFromFront(Tail(kfs)), Head(kfs))

RECURSIVE SortByTime(_)
\* OrderedDict(sorted(keyframes.items(), key=index)): sorted() is stable, so
\* entries of equal index keep their insertion order
SortByTime(kfs) ==
    IF kfs = <<>> THEN <<>>
    ELSE InsertByIndex(SortByTime(SubSeq(kfs, 1, Len(kfs) - 1)), kfs[Len(kfs)])

\* The call of detect_keyframes on fs: it raises, or returns the sorted dict
DetectKeyframes(fs) ==
    IF LandmarksRaise(fs) THEN [raised |-> TRUE, kfs |-> <<>>]
    ELSE
    LET ball_lowest_kf == DetectBallLowest(fs)
        ball_lowest_idx == IF Present(ball_lowest_kf) THEN ball_lowest_kf[1] ELSE 0
        ball_lowest ==
            IF Present(ball_lowest_kf)
            THEN <<Kf("ball_lowest", ball_lowest_kf[1], ball_lowest_kf[1])>>
            ELSE <<Kf("ball_lowest", 0, IF Len(fs) > 0 THEN 0 ELSE -1)>>
        clipped_frames == Clip(fs, ball_lowest_idx)
        squat_deepest ==
            Rebased("squat_deepest", DetectSquatDeepest(clipped_frames), ball_lowest_idx)
        lift_start ==
            Rebased("lift_start", DetectLiftStart(clipped_frames, 0), ball_lowest_idx)
        lift_start_idx ==
            (IF Len(lift_start) > 0 THEN lift_start[1].index ELSE ball_lowest_idx)
            - ball_lowest_idx
        ball_at_chest ==
            Rebased("ball_at_chest",
                    DetectBallAtHeight(clipped_frames, "chest", lift_start_idx),
                    ball_lowest_idx)
        ball_rising_mid == Midpoint("ball_rising_mid", lift_start, ball_at_chest)
        ball_at_chest_idx ==
            (IF Len(ball_at_chest) > 0 THEN ball_at_chest[1].index ELSE ball_lowest_idx)
            - ball_lowest_idx
        ball_at_shoulder ==
            Rebased("ball_at_shoulder",
                    DetectBallAtHeight(clipped_frames, "shoulder", ball_at_chest_idx),
                    ball_lowest_idx)
        elbow_max_bend ==
            Rebased("elbow_max_bend", DetectElbowMaxBend(clipped_frames), ball_lowest_idx)
        elbow_extension_max ==
            Rebased("elbow_extension_max", DetectElbowExtensionMax(clipped_frames),
                    ball_lowest_idx)
        wrist_snap ==
            Rebased("wrist_snap", DetectWristSnap(clipped_frames), ball_lowest_idx)
    IN
    IF ArmFullExtensionRaises(clipped_frames) THEN [raised |-> TRUE, kfs |-> <<>>]
    ELSE
    LET arm_full_extension ==
            Rebased("arm_full_extension", DetectArmFullExtension(clipped_frames),
                    ball_lowest_idx)
        leg_power_start ==
            Rebased("leg_power_start", DetectLegPowerStart(clipped_frames),
                    ball_lowest_idx)
        power_transfer == Midpoint("power_transfer", leg_power_start, elbow_max_bend)
        release ==
            Rebased("release", DetectRelease(clipped_frames, 0), ball_lowest_idx)
        release_prepare == Midpoint("release_prepare", wrist_snap, release)
        follow_through ==
            Rebased("follow_through", DetectFollowThrough(clipped_frames),
                    ball_lowest_idx)
        keyframes ==
            ball_lowest \o squat_deepest \o lift_start \o ball_at_chest
            \o ball_rising_mid \o ball_at_shoulder \o elbow_max_bend
            \o elbow_extension_max \o wrist_snap \o arm_full_extension
            \o leg_power_start \o power_transfer \o release \o release_prepare
            \o follow_through
    IN  [raised |-> FALSE, kfs |-> SortByTime(keyframes)]

\* the warning of _validate_order that keyframe a lies after keyframe b
Later(kfs, a, b) ==
    IF KfHas(kfs, a) /\ KfHas(kfs, b) /\ KfIndex(kfs, a) > KfIndex(kfs, b)
    THEN {<<"order", a, b>>}
    ELSE {}

\* _validate_order(sorted_keyframes): the warnings, as a set
ValidateOrder(kfs) ==
    (IF KfHas(kfs, "ball_lowest")
     THEN {<<"before_anchor", kfs[i].name, "ball_lowest">> :
              i \in {k \in 1..Len(kfs) :
                        /\ kfs[k].name # "ball_lowest"
                        /\ kfs[k].index < KfIndex(kfs, "ball_lowest")}}
     ELSE {})
    \cup Later(kfs, "ball_lowest", "lift_start")
    \cup Later(kfs, "set_point", "release")
    \cup Later(kfs, "release", "follow_through")
    \cup Later(kfs, "leg_power_start", "release")
    \cup Later(kfs, "ball_at_chest", "ball_at_shoulder")

\* The class of the exception a raising call of detect_keyframes lets
\* through: landmarks.get on a None landmarks, or np.argmax of an empty list
DetectKeyframesError(fs) ==
    IF ~DetectKeyframes(fs).raised THEN "none"
    ELSE IF LandmarksRaise(fs) THEN "AttributeError"
    ELSE "ValueError"

----------------------------------------------------------------------------
(* BasketballMetrics.detect_force_sequence and _analyze_movement_pattern   *)

MonitoredJoints ==
    <<"right_ankle", "right_knee", "right_hip",
      "right_shoulder", "right_elbow", "right_wrist">>

\* frame['velocities'].get(joint, 0.0)
VelocityOf(f, joint) ==
    IF joint = "right_wrist" THEN WristVelocity(f)
    ELSE IF joint \in DOMAIN f.vel THEN f.vel[joint]
    ELSE 0

\* vel if frame.get('pose_detected') and 'velocities' in frame, else 0.0
JointVelocity(f, joint) == IF f.lm THEN VelocityOf(f, joint) ELSE 0

movement_threshold == 20

acceleration_threshold == 50

\* start_frame: keyframes['ball_lowest']['index'] when the key is there
ForceStartFrame(kfs) ==
    IF kfs # <<>> /\ KfHas(kfs, "ball_lowest") THEN KfIndex(kfs, "ball_lowest") ELSE 0

\* end_frame: the index stored under the key 'release_point', else
\* len(frames_data)
ForceEndFrame(fs, kfs) ==
    IF kfs # <<>> /\ KfHas(kfs, "release_point")
    THEN KfIndex(kfs, "release_point")
    ELSE Len(fs)

\* velocities of one joint for i in range(start_frame, min(end_frame, len));
\* entry k of the list belongs to frame start_frame + k - 1
ForceVelocities(fs, joint, start_frame, end_frame) ==
    LET stop == Min2(end_frame, Len(fs))
    IN  [k \in 1..Max2(0, stop - start_frame) |->
            JointVelocity(fs[start_frame + k], joint)]

RECURSIVE FirstAcceleration(_, _)
\* for idx in range(1, len(velocities) - 1): the first list position whose
\* velocity rose by the acceleration threshold and reaches the movement
\* threshold
FirstAcceleration(v, idx) ==
    IF idx >= Len(v) - 1 THEN None
    ELSE IF /\ v[idx + 1] - v[idx] >= acceleration_threshold
            /\ v[idx + 1] >= movement_threshold
         THEN Some(idx)
         ELSE FirstAcceleration(v, idx + 1)

RECURSIVE FirstAtFraction(_, _, _, _)
\* for idx in range(max_vel_idx): the first list position whose velocity is
\* >= max_vel * 0.3
FirstAtFraction(v, max_vel, max_vel_idx, idx) ==
    IF idx >= max_vel_idx THEN None
    ELSE IF 10 * v[idx + 1] >= 3 * max_vel
         THEN Some(idx)
         ELSE FirstAtFraction(v, max_vel, max_vel_idx, idx + 1)

\* initiation_times[joint]['frame'], or None when the joint gets no entry
InitiationFrame(fs, joint, start_frame, end_frame) ==
    LET velocities == ForceVelocities(fs, joint, start_frame, end_frame)
    IN  IF Len(velocities) < 3 THEN None
        ELSE LET first == FirstAcceleration(velocities, 1)
             IN  IF Present(first) THEN Some(start_frame + first[1])
                 ELSE LET back == FirstAtFraction(velocities, MaxOf(velocities),
                                                  ArgMax(velocities), 0)
                      IN  IF Present(back) THEN Some(start_frame + back[1])
                          ELSE None

\* mutant: a group has frames only when every joint of it has one
GroupFramesAll(initiation_times, joints) ==
    IF \A k \in joints : Present(initiation_times[k])
    THEN {initiation_times[j][1] : j \in joints}
    ELSE {}

\* the initiation frames of the joints of a group that have one
GroupFrames(initiation_times, joints) ==
    {initiation_times[j][1] : j \in {k \in joints : Present(initiation_times[k])}}

SetMin(S) == CHOOSE m \in S : \A x \in S : m <= x

\* mutant: the upper group has to start less than 2 frames from the lower one
CloseStartsStrict(lower_start, upper_start) == Abs(upper_start - lower_start) < 2

\* abs(time_diffs['upper_vs_lower']) <= 2
CloseStarts(lower_start, upper_start) == Abs(upper_start - lower_start) <= 2

\* _analyze_movement_pattern: its pattern_type
AnalyzeMovementPattern(initiation_times) ==
    LET lower_frames == GroupFrames(initiation_times, {"right_ankle", "right_knee"})
        hip_frame == initiation_times["right_hip"]
        upper_frames ==
            GroupFrames(initiation_times,
                        {"right_shoulder", "right_elbow", "right_wrist"})
    IN  IF lower_frames = {} \/ ~Present(hip_frame) \/ upper_frames = {}
        THEN "incomplete_data"
        ELSE
        LET lower_start == SetMin(lower_frames)
            hip_start == hip_frame[1]
            upper_start == SetMin(upper_frames)
            \* parts_timing.sort(key=time) is stable
            parts_timing ==
                SortByTime(<<[name |-> "lower", index |-> lower_start],
                             [name |-> "hip", index |-> hip_start],
                             [name |-> "upper", index |-> upper_start]>>)
            initiation_order == [i \in 1..3 |-> parts_timing[i].name]
        IN  IF initiation_order = <<"lower", "hip", "upper">> THEN "lower_hip_upper"
            ELSE IF initiation_order[1] = "hip"
            THEN IF initiation_order = <<"hip", "lower", "upper">> THEN "hip_lower_upper"
                 ELSE IF initiation_order = <<"hip", "upper", "lower">>
                      THEN "hip_upper_lower"
                      ELSE "hip_first"
            ELSE IF initiation_order[1] = "lower"
            THEN IF CloseStarts(lower_start, upper_start) THEN "lower_synchronized"
                 ELSE "lower_first"
            ELSE IF initiation_order[1] = "upper" THEN "upper_first"
            ELSE "unknown"

\* detect_force_sequence: the analysis range, each monitored joint's
\* initiation frame and the pattern type
DetectForceSequence(fs, kfs) ==
    LET start_frame == ForceStartFrame(kfs)
        end_frame == ForceEndFrame(fs, kfs)
        initiation_times ==
            [joint \in Range(MonitoredJoints) |->
                InitiationFrame(fs, joint, start_frame, end_frame)]
    IN  [start_frame |-> start_frame, end_frame |-> end_frame,
         initiation_times |-> initiation_times,
         pattern_type |-> AnalyzeMovementPattern(initiation_times)]

----------------------------------------------------------------------------
(* BasketballMetrics.calculate_energy_transfer_efficiency.  A group's      *)
(* per-frame average velocity is kept times 6, so that the mean of one,    *)
(* two or three positive samples is an integer; velocity_ratio is the      *)
(* fraction num/den.                                                       *)

lower_body_joints == {"right_ankle", "right_knee", "right_hip"}

upper_body_joints == {"right_shoulder", "right_elbow", "right_wrist"}

RECURSIVE SetSum(_)
SetSum(S) == IF S = {} THEN 0 ELSE LET x == CHOOSE y \in S : TRUE
                                   IN  x[2] + SetSum(S \ {x})

\* np.mean(valid) if valid else 0.0, over the samples v > 0 of the joints,
\* times 6
MeanPositive6(f, joints) ==
    LET valid == {<<j, VelocityOf(f, j)>> : j \in {k \in joints : VelocityOf(f, k) > 0}}
    IN  IF valid = {} THEN 0 ELSE (6 * SetSum(valid)) \div Cardinality(valid)

\* range(start_frame, min(end_frame + 1, len(frames_data))), 0-based
EnergyRange(fs, start_frame, end_frame) ==
    start_frame .. (Min2(end_frame + 1, Len(fs)) - 1)

RECURSIVE PoseFrames(_, _, _)
\* the frames of the range that pass 'pose_detected and velocities in
\* frame', in order: only these get an entry in the two velocity lists
PoseFrames(fs, i, stop) ==
    IF i >= stop THEN <<>>
    ELSE (IF fs[i + 1].lm THEN <<i>> ELSE <<>>) \o PoseFrames(fs, i + 1, stop)

\* mutant: a lag of exactly 3 frames already counts as sequential
TransferTimingFrom3(timing_difference) ==
    IF timing_difference >= 3 THEN "sequential"
    ELSE IF timing_difference >= 0 THEN "synchronized"
    ELSE "reversed"

TransferTiming(timing_difference) ==
    IF timing_difference > 3 THEN "sequential"
    ELSE IF timing_difference >= 0 THEN "synchronized"
    ELSE "reversed"

\* the dict returned on both early exits
EnergyUnknown(start_frame, end_frame) ==
    [lower_body_peak_velocity |-> 0, upper_body_peak_velocity |-> 0,
     velocity_ratio |-> [num |-> 0, den |-> 1], transfer_timing |-> "unknown",
     lower_peak_frame |-> 0, upper_peak_frame |-> 0, timing_difference |-> 0,
     start_frame |-> start_frame, end_frame |-> end_frame]

\* kfs is the keyframes dict as a list of entries
CalculateEnergyTransferEfficiency(fs, kfs) ==
    LET start_frame == IF KfHas(kfs, "ball_lowest") THEN KfIndex(kfs, "ball_lowest") ELSE 0
        end_frame == IF KfHas(kfs, "release_point")
                     THEN KfIndex(kfs, "release_point")
                     ELSE Len(fs) - 1
    IN  IF start_frame >= end_frame THEN EnergyUnknown(start_frame, end_frame)
        ELSE
        LET used == PoseFrames(fs, start_frame, Min2(end_frame + 1, Len(fs)))
            lower_body_velocities ==
                [k \in 1..Len(used) |-> MeanPositive6(fs[used[k] + 1], lower_body_joints)]
            upper_body_velocities ==
                [k \in 1..Len(used) |-> MeanPositive6(fs[used[k] + 1], upper_body_joints)]
        IN  IF Len(used) = 0 THEN EnergyUnknown(start_frame, end_frame)
            ELSE
            LET lower_peak_velocity == MaxOf(lower_body_velocities)
                upper_peak_velocity == MaxOf(upper_body_velocities)
                lower_peak_frame == start_frame + ArgMax(lower_body_velocities)
                upper_peak_frame == start_frame + ArgMax(upper_body_velocities)
                timing_difference == upper_peak_frame - lower_peak_frame
            IN  [lower_body_peak_velocity |-> lower_peak_velocity,
                 upper_body_peak_velocity |-> upper_peak_velocity,
                 velocity_ratio |->
                     IF lower_peak_velocity > 0
                     THEN [num |-> upper_peak_velocity, den |-> lower_peak_velocity]
                     ELSE [num |-> 0, den |-> 1],
                 transfer_timing |-> TransferTiming(timing_difference),
                 lower_peak_frame |-> lower_peak_frame,
                 upper_peak_frame |-> upper_peak_frame,
                 timing_difference |-> timing_difference,
                 start_frame |-> start_frame, end_frame |-> end_frame]

----------------------------------------------------------------------------
(* BasketballMetrics.calculate_rhythm_metrics.  Here a keyframe name is    *)
(* the sequence of its words ("ball_lowest" is <<"ball", "lowest">>), so   *)
(* that the phase name "<current>_to_<next>" is a concatenation; a         *)
(* duration in seconds is the fraction num/den.  rhythm_consistency and    *)
(* avg_phase_duration (floating-point statistics) are left out.            *)

\* frames / fps if fps > 0 else 0
Seconds(duration_frames, fps) ==
    IF fps > 0 THEN [num |-> duration_frames, den |-> fps] ELSE [num |-> 0, den |-> 1]

\* f"{current_name}_to_{next_name}"
PhaseName(current_name, next_name) == current_name \o <<"to">> \o next_name

\* d[key] = value on a dict kept as the list of its items
DictPut(d, key, value) ==
    IF \E i \in 1..Len(d) : d[i].key = key
    THEN [i \in 1..Len(d) |-> IF d[i].key = key THEN [key |-> key, value |-> value]
                              ELSE d[i]]
    ELSE Append(d, [key |-> key, value |-> value])

\* mutant: the keyframes are taken in insertion order
RhythmUnsorted(keyframes) == keyframes

\* sorted(keyframes.items(), key=index)
RhythmSorted(keyframes) == SortByTime(keyframes)

RECURSIVE PhaseDurations(_, _, _)
\* the loop over range(len(sorted_keyframes) - 1), up to and including i
PhaseDurations(sorted_keyframes, fps, i) ==
    IF i < 1 THEN <<>>
    ELSE LET current_frame == sorted_keyframes[i].index
             next_frame == sorted_keyframes[i + 1].index
             duration_frames == next_frame - current_frame
         IN  DictPut(PhaseDurations(sorted_keyframes, fps, i - 1),
                     PhaseName(sorted_keyframes[i].name, sorted_keyframes[i + 1].name),
                     [frames |-> duration_frames,
                      seconds |-> Seconds(duration_frames, fps),
                      from_frame |-> current_frame, to_frame |-> next_frame])

\* (b['index'] - a['index']) / fps when both keyframes are there
KeyPhase(keyframes, a, b, fps) ==
    IF KfHas(keyframes, a) /\ KfHas(keyframes, b)
    THEN Some([num |-> KfIndex(keyframes, b) - KfIndex(keyframes, a), den |-> fps])
    ELSE None

\* the unguarded divisions by fps of the key phases
RhythmRaises(keyframes, fps) ==
    /\ fps = 0
    /\ \/ KfHas(keyframes, <<"ball", "lowest">>) /\ KfHas(keyframes, <<"squat", "deepest">>)
       \/ KfHas(keyframes, <<"squat", "deepest">>) /\ KfHas(keyframes, <<"release", "point">>)
       \/ KfHas(keyframes, <<"release", "point">>) /\ KfHas(keyframes, <<"follow", "through">>)

\* keyframes is the dict as the list of its items in insertion order
CalculateRhythmMetrics(keyframes, fps) ==
    IF keyframes = <<>> THEN [raised |-> FALSE, empty |-> TRUE]
    ELSE IF RhythmRaises(keyframes, fps) THEN [raised |-> TRUE, empty |-> FALSE]
    ELSE
    LET sorted_keyframes == RhythmSorted(keyframes)
        phase_durations ==
            PhaseDurations(sorted_keyframes, fps, Len(sorted_keyframes) - 1)
        first_frame == sorted_keyframes[1].index
        last_frame == sorted_keyframes[Len(sorted_keyframes)].index
    IN  [raised |-> FALSE, empty |-> FALSE,
         phase_durations |-> phase_durations,
         total_duration |-> Seconds(last_frame - first_frame, fps),
         shooting_duration |->
             IF KfHas(keyframes, <<"ball", "lowest">>)
             THEN Seconds(last_frame - KfIndex(keyframes, <<"ball", "lowest">>), fps)
             ELSE [num |-> 0, den |-> 1],
         key_phases |->
             [preparation |-> KeyPhase(keyframes, <<"ball", "lowest">>,
                                       <<"squat", "deepest">>, fps),
              power_phase |-> KeyPhase(keyframes, <<"squat", "deepest">>,
                                       <<"release", "point">>, fps),
              follow_through |-> KeyPhase(keyframes, <<"release", "point">>,
                                          <<"follow", "through">>, fps)],
         phase_count |-> Len(phase_durations)]

----------------------------------------------------------------------------
(* BasketballMetrics.calculate_velocity and _smooth_data.  A position is   *)
(* None or its pixel coordinates; a velocity is kept times 6, so that the  *)
(* mean of a window of two or three samples is an integer.                 *)

\* np.sqrt of a perfect square
Sqrt(n) == CHOOSE r \in 0..n : r * r = n

\* mutant: the signed vertical displacement instead of the distance
PixelDisplacement(p, q) == q.y_pixel - p.y_pixel

\* np.sqrt(dx**2 + dy**2) between two present positions
PixelDistance(p, q) ==
    Sqrt((q.x_pixel - p.x_pixel) * (q.x_pixel - p.x_pixel)
         + (q.y_pixel - p.y_pixel) * (q.y_pixel - p.y_pixel))

\* velocities before smoothing, times 6: 0.0 for the first frame, then
\* distance * fps, or 0.0 when either position is missing
RawVelocities6(positions, fps) ==
    [i \in 1..Len(positions) |->
        IF i = 1 THEN 0
        ELSE IF Present(positions[i]) /\ Present(positions[i - 1])
             THEN 6 * PixelDistance(positions[i - 1][1], positions[i][1]) * fps
             ELSE 0]

RECURSIVE SeqSum(_, _, _)
\* sum(data[start:end]) for 1-based start..end
SeqSum(data, start, end) ==
    IF start > end THEN 0 ELSE data[start] + SeqSum(data, start + 1, end)

\* _smooth_data: the mean over data[max(0, i - half):min(len, i + half + 1)]
SmoothData(data, window_size) ==
    IF window_size < 2 \/ Len(data) < window_size THEN data
    ELSE LET half_window == window_size \div 2
         IN  [i \in 1..Len(data) |->
                LET start == Max2(1, i - half_window)
                    end == Min2(Len(data), i + half_window)
                IN  SeqSum(data, start, end) \div (end - start + 1)]

\* calculate_velocity(positions, fps, smoothing), times 6
CalculateVelocity6(positions, fps, smoothing) ==
    IF Len(positions) < 2 THEN [i \in 1..Len(positions) |-> 0]
    ELSE IF smoothing > 1
         THEN SmoothData(RawVelocities6(positions, fps), smoothing)
         ELSE RawVelocities6(positions, fps)

----------------------------------------------------------------------------
(* Inputs of detect_keyframes *)

\* a frame with a landmarks dict and nothing else
BareFrame ==
    [lm |-> TRUE, rw |-> None, re |-> None, ls |-> None, rs |-> None,
     lh |-> None, rh |-> None, ea |-> None, ka |-> None, com |-> None,
     vw |-> None, vel |-> <<>>]

\* the frame analyze_frames stores when no pose is detected:
\* landmarks None, angles {}, center_of_mass None; _calculate_temporal_metrics
\* then adds velocity 0.0 and com_height 0.0
NoPoseFrame ==
    [BareFrame EXCEPT !.lm = FALSE, !.com = Some(0), !.vw = Some(0)]

WristFrame(y) == [BareFrame EXCEPT !.rw = Some(y)]

\* wrist y with the wrist's and the knee's velocity in px/s
MovingFrame(y, wrist, knee) ==
    [BareFrame EXCEPT !.rw = Some(y), !.vw = Some(wrist),
                      !.vel = [j \in {"right_knee"} |-> knee]]

\* wrist y with torso landmarks: shoulders at 0.2, hips at 0.6
TorsoFrame(y) ==
    [BareFrame EXCEPT !.rw = Some(y), !.ls = Some(200), !.rs = Some(200),
                      !.lh = Some(600), !.rh = Some(600), !.com = Some(600)]

LimbFrame(ea, ka) == [BareFrame EXCEPT !.ea = Some(ea), !.ka = Some(ka)]

ArmFrame(y, e) == [BareFrame EXCEPT !.rw = Some(y), !.re = Some(e)]

\* the wrist-y series 0.9, 0.85, 0.8, 0.75, 0.7
LiftExample ==
    <<WristFrame(900), WristFrame(850), WristFrame(800), WristFrame(750),
      WristFrame(700)>>

Profiles ==
    {"wrist", "absent", "nopose", "release", "torso", "limbs", "arm", "force"}

\* The frames an input sequence of each profile is drawn from
FrameSet(p) ==
    CASE p = "wrist"   -> {WristFrame(y) : y \in {0, 2, 5, 10, 11}}
      [] p = "absent"  -> {BareFrame} \cup {WristFrame(y) : y \in {0, 2, 5}}
      [] p = "nopose"  -> {NoPoseFrame, WristFrame(5)}
      [] p = "release" -> {WristFrame(y) : y \in {0, 2, 5, 11}}
                          \cup {[WristFrame(11) EXCEPT !.ea = Some(90)]}
      [] p = "torso"   -> {TorsoFrame(y) : y \in {700, 340, 250, 200}}
      [] p = "limbs"   -> {LimbFrame(100, 150), LimbFrame(100, 120),
                           LimbFrame(80, 150),
                           [LimbFrame(160, 150) EXCEPT !.rw = Some(500)]}
      [] p = "arm"     -> {ArmFrame(600, 500), ArmFrame(450, 500),
                           ArmFrame(300, 450), ArmFrame(200, 400)}
      [] p = "force"   -> {MovingFrame(5, 0, 0), MovingFrame(0, 0, 10),
                           MovingFrame(2, 0, 30), MovingFrame(2, 60, 0)}
      [] p = "example" -> Range(LiftExample)

----------------------------------------------------------------------------
(* Keyframe detection as a state machine: the caller builds a frame        *)
(* sequence and calls detect_keyframes on it once.                         *)

NoResult == [raised |-> FALSE, kfs |-> <<>>]

\* no metrics function is being called
MIdle ==
    /\ mpc = "idle"
    /\ marg = <<>>
    /\ mres = <<>>

\* the caller starts from the empty list, or from the example series
KfInit ==
    /\ \/ frames = <<>> /\ profile \in Profiles
       \/ frames = LiftExample /\ profile = "example"
    /\ kfpc = "input"
    /\ kfres = NoResult
    /\ force = None

\* the caller appends one frame to frames_data
AddFrame ==
    /\ kfpc = "input"
    /\ Len(frames) < MaxFrames
    /\ \E f \in FrameSet(profile) : frames' = Append(frames, f)
    /\ UNCHANGED <<profile, kfpc, kfres, force, tmvars, mvars>>

\* KeyframeDetector.detect_keyframes(frames_data)
CallDetectKeyframes ==
    /\ kfpc = "input"
    /\ kfres' = DetectKeyframes(frames)
    /\ kfpc' = "done"
    /\ UNCHANGED <<frames, profile, force, tmvars, mvars>>

\* analyze_frames goes on, when detect_keyframes returned, with
\* detect_force_sequence(frames_data, fps, keyframes)
CallDetectForceSequence ==
    /\ kfpc = "done"
    /\ ~kfres.raised
    /\ force' = Some(DetectForceSequence(frames, kfres.kfs))
    /\ kfpc' = "analysed"
    /\ UNCHANGED <<frames, profile, kfres, tmvars, mvars>>

KfIdle ==
    /\ frames = <<>>
    /\ profile = "none"
    /\ kfpc = "idle"
    /\ kfres = NoResult
    /\ force = None

----------------------------------------------------------------------------
(* TaskManager.  A task dict holds status, progress, message, started_at,  *)
(* completed_at (set or not), result and error; task ids are handed out in *)
(* creation order, so a task's id also orders its created_at.              *)

MaxTasks == 2

TaskIds == 1..MaxTasks

\* the dict create_task stores
NewTask ==
    [status |-> "pending", progress |-> 0, message |-> "created",
     started_at |-> FALSE, completed_at |-> FALSE,
     result |-> None, error |-> None]

\* dict.update(updates) on one task dict
Merge(task, updates) ==
    [k \in DOMAIN task |-> IF k \in DOMAIN updates THEN updates[k] ELSE task[k]]

\* mutant: an update for an id that is not stored stores a new dict
UpdateTaskOrStore(t, task_id, updates) ==
    IF task_id \in DOMAIN t
    THEN [t EXCEPT ![task_id] = Merge(@, updates)]
    ELSE t @@ (task_id :> Merge(NewTask, updates))

\* update_task: under the lock, update the dict if the id is still present
UpdateTask(t, task_id, updates) ==
    IF task_id \in DOMAIN t
    THEN [t EXCEPT ![task_id] = Merge(@, updates)]
    ELSE t

\* del self.tasks[task_id] for every id of ids
Without(t, ids) == [i \in (DOMAIN t) \ ids |-> t[i]]

\* the progress values analyze_video reports, in order
ProgressSteps == <<0, 5, 10, 15, 30, 35, 60, 75, 80, 90, 95, 100>>

\* the kinds of exception a callback raises: VideoAnalysisError (or a
\* subclass) or any other Exception
ErrorKinds == {"VideoAnalysisError", "Exception"}


\* mutant: the first update forgets the status
ProcessingUpdateNoStatus ==
    [started_at |-> TRUE, message |-> "started"]

\* update_task(task_id, {'status': 'processing', 'started_at': ..., 'message': ...})
ProcessingUpdate ==
    [status |-> "processing", started_at |-> TRUE, message |-> "started"]

\* progress_callback(progress, message)
ProgressUpdate(progress) ==
    [progress |-> progress,
     message |-> IF progress < 0 THEN "analysis_failed" ELSE "progress"]

\* the update after callback returned its result
CompletedUpdate ==
    [status |-> "completed", progress |-> 100, message |-> "completed",
     completed_at |-> TRUE, result |-> Some("analysis")]


\* mutant: the except clauses record the error but leave the status alone
FailedUpdateNoStatus(kind) ==
    [message |-> "generic_user_message", completed_at |-> TRUE,
     error |-> Some([message |-> "technical_message", trace |-> "trace",
                     type |-> "UnexpectedError"])]

\* mutant: the except clauses publish a partial result
FailedUpdatePartial(kind) ==
    [status |-> "failed", message |-> "generic_user_message",
     completed_at |-> TRUE, result |-> Some("partial"),
     error |-> Some([message |-> "technical_message", trace |-> "trace",
                     type |-> "UnexpectedError"])]

\* mutant: every exception is recorded by the generic except clause
FailedUpdateGeneric(kind) ==
    [status |-> "failed", message |-> "generic_user_message",
     completed_at |-> TRUE,
     error |-> Some([message |-> "technical_message",
                     user_message |-> "generic_user_message",
                     trace |-> "trace", type |-> "UnexpectedError"])]

\* the update of the except clause that caught an exception of this kind
FailedUpdate(kind) ==
    IF kind = "VideoAnalysisError"
    THEN [status |-> "failed", message |-> "user_message", completed_at |-> TRUE,
          error |-> Some([message |-> "user_message", trace |-> "trace",
                          type |-> "VideoAnalysisError"])]
    ELSE [status |-> "failed", message |-> "generic_user_message",
          completed_at |-> TRUE,
          error |-> Some([message |-> "technical_message",
                          user_message |-> "generic_user_message",
                          trace |-> "trace", type |-> "UnexpectedError"])]

At(task_id, pc) == task_id \in created /\ wpc[task_id].pc = pc

Goto(task_id, pc, step) == wpc' = [wpc EXCEPT ![task_id] = [pc |-> pc, step |-> step]]

TmInit ==
    /\ tasks = <<>>
    /\ created = {}
    /\ wpc = <<>>
    /\ wfail = <<>>

\* create_task: store the dict and start the worker thread
CreateTask ==
    /\ Cardinality(created) < MaxTasks
    /\ LET task_id == Cardinality(created) + 1
       IN  /\ tasks' = tasks @@ (task_id :> NewTask)
           /\ created' = created \cup {task_id}
           /\ wpc' = wpc @@ (task_id :> [pc |-> "start", step |-> 0])
           /\ wfail' = wfail @@ (task_id :> None)
    /\ UNCHANGED <<kfvars, mvars>>

\* _run_task: the first update_task
MarkProcessing(task_id) ==
    /\ At(task_id, "start")
    /\ tasks' = UpdateTask(tasks, task_id, ProcessingUpdate)
    /\ Goto(task_id, "get", 0)
    /\ UNCHANGED <<created, wfail, kfvars, mvars>>

\* _run_task: task = self.get_task(task_id); task['video_path'] raises
\* TypeError when the task has been deleted and get_task returned None
ReadTask(task_id) ==
    /\ At(task_id, "get")
    /\ IF task_id \in DOMAIN tasks
       THEN /\ Goto(task_id, "callback", 1)
            /\ UNCHANGED wfail
       ELSE /\ Goto(task_id, "handler", 0)
            /\ wfail' = [wfail EXCEPT ![task_id] = Some("Exception")]
    /\ UNCHANGED <<tasks, created, kfvars, mvars>>

\* analyze_video: the next progress_callback(progress, message)
ReportProgress(task_id) ==
    /\ At(task_id, "callback")
    /\ LET step == wpc[task_id].step
       IN  /\ tasks' = UpdateTask(tasks, task_id, ProgressUpdate(ProgressSteps[step]))
           /\ IF step < Len(ProgressSteps)
              THEN Goto(task_id, "callback", step + 1)
              ELSE Goto(task_id, "return", 0)
    /\ UNCHANGED <<created, wfail, kfvars, mvars>>

\* analyze_video: the stage between two progress reports raises; the except
\* clause of analyze_video reports progress_callback(-1, ...) and re-raises
StageFails(task_id) ==
    /\ At(task_id, "callback")
    /\ wpc[task_id].step > 1
    /\ \E kind \in ErrorKinds : wfail' = [wfail EXCEPT ![task_id] = Some(kind)]
    /\ tasks' = UpdateTask(tasks, task_id, ProgressUpdate(-1))
    /\ Goto(task_id, "handler", 0)
    /\ UNCHANGED <<created, kfvars, mvars>>

\* _run_task: callback returned; the 'completed' update
CompleteTask(task_id) ==
    /\ At(task_id, "return")
    /\ tasks' = UpdateTask(tasks, task_id, CompletedUpdate)
    /\ Goto(task_id, "done", 0)
    /\ UNCHANGED <<created, wfail, kfvars, mvars>>

\* _run_task: the except clauses; the 'failed' update
FailTask(task_id) ==
    /\ At(task_id, "handler")
    /\ tasks' = UpdateTask(tasks, task_id, FailedUpdate(wfail[task_id][1]))
    /\ Goto(task_id, "done", 0)
    /\ UNCHANGED <<created, wfail, kfvars, mvars>>

\* one step of the worker thread of a task
Worker(task_id) ==
    \/ MarkProcessing(task_id)
    \/ ReadTask(task_id)
    \/ ReportProgress(task_id)
    \/ StageFails(task_id)
    \/ CompleteTask(task_id)
    \/ FailTask(task_id)

\* delete_task on a stored id (on any other id it returns False, no change)
DeleteTask(task_id) ==
    /\ task_id \in DOMAIN tasks
    /\ tasks' = Without(tasks, {task_id})
    /\ UNCHANGED <<created, wpc, wfail, kfvars, mvars>>

\* mutant: every task created before the cutoff is deleted
TasksToDeleteByAge(t, cutoff) == {i \in DOMAIN t : i < cutoff}

\* the ids cleanup_old_tasks deletes: created before the cutoff and finished
TasksToDelete(t, cutoff) ==
    {i \in DOMAIN t : i < cutoff /\ t[i].status \in {"completed", "failed"}}

\* cleanup_old_tasks; the cutoff time falls before the creation of task
\* number 'cutoff'
CleanupOldTasks(cutoff) ==
    /\ tasks' = Without(tasks, TasksToDelete(tasks, cutoff))
    /\ UNCHANGED <<created, wpc, wfail, kfvars, mvars>>

TmNext ==
    \/ CreateTask
    \/ \E task_id \in TaskIds : MarkProcessing(task_id)
    \/ \E task_id \in TaskIds : ReadTask(task_id)
    \/ \E task_id \in TaskIds : ReportProgress(task_id)
    \/ \E task_id \in TaskIds : StageFails(task_id)
    \/ \E task_id \in TaskIds : CompleteTask(task_id)
    \/ \E task_id \in TaskIds : FailTask(task_id)
    \/ \E task_id \in TaskIds : DeleteTask(task_id)
    \/ \E cutoff \in 1..(MaxTasks + 1) : CleanupOldTasks(cutoff)

InitTM == TmInit /\ KfIdle /\ MIdle

SpecTM == InitTM /\ [][TmNext]_vars

\* the worker threads are scheduled fairly
FairSpecTM == SpecTM /\ \A task_id \in TaskIds : WF_vars(Worker(task_id))

----------------------------------------------------------------------------

Init == KfInit /\ TmInit /\ MIdle

----------------------------------------------------------------------------
(* _analyze_movement_pattern called on any initiation_times dict *)

\* initiation_times: each monitored joint has an entry with a frame, or none
InitiationTimes ==
    [Range(MonitoredJoints) -> {None} \cup {Some(t) : t \in 0..MaxInitFrame}]

InitPattern ==
    /\ KfIdle
    /\ TmInit
    /\ mpc = "input"
    /\ marg \in InitiationTimes
    /\ mres = <<>>

CallAnalyzeMovementPattern ==
    /\ mpc = "input"
    /\ mres' = AnalyzeMovementPattern(marg)
    /\ mpc' = "done"
    /\ UNCHANGED <<marg, kfvars, tmvars>>

SpecPattern == InitPattern /\ [][CallAnalyzeMovementPattern]_vars

----------------------------------------------------------------------------
(* calculate_energy_transfer_efficiency called on frames and keyframes *)

\* a frame with pose and the velocities of knee, hip and wrist in px/s
EnergyFrame(knee, hip, wrist) ==
    [BareFrame EXCEPT !.vw = Some(wrist),
                      !.vel = [j \in {"right_knee", "right_hip"} |->
                                  IF j = "right_knee" THEN knee ELSE hip]]

EnergyFrames ==
    {EnergyFrame(0, 0, 0), EnergyFrame(100, 0, 20), EnergyFrame(100, 50, 0),
     EnergyFrame(20, 0, 250), NoPoseFrame}

\* keyframes dicts: ball_lowest and release_point present or not
EnergyKeyframes ==
    {a \o b : a \in {<<>>, <<Kf("ball_lowest", 0, 0)>>, <<Kf("ball_lowest", 1, 1)>>},
              b \in {<<>>, <<Kf("release_point", 3, 3)>>}}

\* 15 frames with the lower-body peak 100 px/s at frame 10 and the
\* upper-body peak 250 px/s at frame 14, window start 0
EnergyExample ==
    [fs |-> [i \in 1..15 |->
                EnergyFrame(IF i = 11 THEN 100 ELSE 40, 0,
                            IF i = 15 THEN 250 ELSE 30)],
     kfs |-> <<Kf("ball_lowest", 0, 0)>>]

InitEnergy ==
    /\ KfIdle
    /\ TmInit
    /\ mpc = "input"
    /\ \/ \E n \in 0..MaxEnergyFrames :
             \E fs \in [1..n -> EnergyFrames], kfs \in EnergyKeyframes :
                marg = [fs |-> fs, kfs |-> kfs]
       \/ marg = EnergyExample
    /\ mres = <<>>

CallCalculateEnergyTransferEfficiency ==
    /\ mpc = "input"
    /\ mres' = CalculateEnergyTransferEfficiency(marg.fs, marg.kfs)
    /\ mpc' = "done"
    /\ UNCHANGED <<marg, kfvars, tmvars>>

SpecEnergy == InitEnergy /\ [][CallCalculateEnergyTransferEfficiency]_vars

----------------------------------------------------------------------------
(* calculate_rhythm_metrics called on a keyframes dict and fps *)

\* some of the names detect_keyframes gives its keyframes
RhythmNames ==
    {<<"ball", "lowest">>, <<"squat", "deepest">>, <<"lift", "start">>,
     <<"release">>, <<"follow", "through">>}

\* dicts of up to MaxRhythmKeyframes keyframes, in any insertion order
RhythmKeyframes ==
    UNION {{k \in [1..n -> [name : RhythmNames, index : 0..MaxRhythmIndex]] :
               \A i, j \in 1..n : i # j => k[i].name # k[j].name} :
           n \in 0..MaxRhythmKeyframes}

InitRhythm ==
    /\ KfIdle
    /\ TmInit
    /\ mpc = "input"
    /\ marg \in [keyframes : RhythmKeyframes, fps : {0, 30}]
    /\ mres = <<>>

CallCalculateRhythmMetrics ==
    /\ mpc = "input"
    /\ mres' = CalculateRhythmMetrics(marg.keyframes, marg.fps)
    /\ mpc' = "done"
    /\ UNCHANGED <<marg, kfvars, tmvars>>

SpecRhythm == InitRhythm /\ [][CallCalculateRhythmMetrics]_vars

----------------------------------------------------------------------------
(* calculate_velocity called on a joint's position series, as              *)
(* _calculate_temporal_metrics does (default smoothing window)             *)

\* the default of the smoothing parameter
DefaultSmoothing == 3

\* a missing landmark, or one of three pixel positions 5 px apart on a line
PixelPositions ==
    {None} \cup {Some([x_pixel |-> 3 * k, y_pixel |-> 4 * k]) : k \in 0..2}

InitVelocity ==
    /\ KfIdle
    /\ TmInit
    /\ mpc = "input"
    /\ \E n \in 0..MaxPositions :
          marg \in [positions : [1..n -> PixelPositions], fps : {25, 30}]
    /\ mres = <<>>

CallCalculateVelocity ==
    /\ mpc = "input"
    /\ mres' = CalculateVelocity6(marg.positions, marg.fps, DefaultSmoothing)
    /\ mpc' = "done"
    /\ UNCHANGED <<marg, kfvars, tmvars>>

SpecVelocity == InitVelocity /\ [][CallCalculateVelocity]_vars

Next == AddFrame \/ CallDetectKeyframes \/ CallDetectForceSequence

Spec == Init /\ [][Next]_vars

----------------------------------------------------------------------------
(* Reading the outcome of detect_keyframes *)

Returned == kfpc \in {"done", "analysed"} /\ ~kfres.raised

Has(name) == \E i \in 1..Len(kfres.kfs) : kfres.kfs[i].name = name

Idx(name) == (CHOOSE k \in Range(kfres.kfs) : k.name = name).index

AnchorIdx == Idx("ball_lowest")

\* the frames at index >= ball_lowest.index
Window == Clip(frames, AnchorIdx)

\* 0-based frame indices at which the right wrist is present
WristFrames == {i \in 0..(Len(frames) - 1) : Present(frames[i+1].rw)}

----------------------------------------------------------------------------
(* Claims *)

\* C1: every keyframe of the returned set (detector-produced, midpoint or
\* fallback) has index >= ball_lowest.index
C1_KeyframesNotBeforeAnchor ==
    Returned =>
        \A i \in 1..Len(kfres.kfs) : kfres.kfs[i].index >= AnchorIdx

\* C1 case: the anchor is not frame 0, and detectors and a midpoint produced
\* keyframes
C1_Witness ==
    /\ Returned
    /\ AnchorIdx > 0
    /\ Has("lift_start")
    /\ Has("ball_rising_mid")

\* C2: the returned map iterates in non-decreasing index order and its first
\* entry is ball_lowest, also when other keyframes share ball_lowest's index
C2_SortedAnchorFirst ==
    Returned =>
        /\ kfres.kfs[1].name = "ball_lowest"
        /\ \A i \in 1..Len(kfres.kfs) : \A j \in i..Len(kfres.kfs) :
               kfres.kfs[i].index <= kfres.kfs[j].index

\* C2 case: another keyframe has ball_lowest's index and a later one follows
C2_Witness ==
    /\ Returned
    /\ \E i \in 2..Len(kfres.kfs) : kfres.kfs[i].index = AnchorIdx
    /\ \E i \in 2..Len(kfres.kfs) : kfres.kfs[i].index > AnchorIdx

\* C3 (as claimed): ball_lowest.index is the earliest index of the full
\* sequence at which right-wrist y is maximal among the frames where the wrist
\* is present (so the only such frame when there is exactly one), and index 0
\* when the wrist is present in no frame
C3_AnchorIsLowestWrist ==
    Returned =>
        IF WristFrames = {}
        THEN AnchorIdx = 0
        ELSE /\ AnchorIdx \in WristFrames
             /\ \A i \in WristFrames : frames[i+1].rw[1] <= frames[AnchorIdx+1].rw[1]
             /\ \A i \in WristFrames :
                    i < AnchorIdx => frames[i+1].rw[1] < frames[AnchorIdx+1].rw[1]

\* C4 (as claimed): a frame sequence containing frames with no pose detected
\* (landmarks None) never makes detect_keyframes raise
C4_NoPoseFramesDoNotRaise ==
    (kfpc = "done" /\ \E i \in 1..Len(frames) : ~frames[i].lm) => ~kfres.raised

\* C5: a status only moves pending -> processing -> completed or
\* pending -> processing -> failed (a new task starts pending), so once it is
\* completed or failed no later step changes it
C5_StatusMoves ==
    [][\A id \in TaskIds :
          /\ (id \in DOMAIN tasks /\ id \in DOMAIN tasks') =>
                 \/ tasks'[id].status = tasks[id].status
                 \/ <<tasks[id].status, tasks'[id].status>> \in
                        {<<"pending", "processing">>,
                         <<"processing", "completed">>,
                         <<"processing", "failed">>}
          /\ (id \notin DOMAIN tasks /\ id \in DOMAIN tasks') =>
                 tasks'[id].status = "pending"]_vars

\* C5 case: one task has completed and another has failed
C5_Witness ==
    /\ \E id \in DOMAIN tasks : tasks[id].status = "completed"
    /\ \E id \in DOMAIN tasks : tasks[id].status = "failed"

\* C6: with fairly scheduled workers, every task that is created and not
\* deleted eventually has status completed or failed
C6_TaskTerminates ==
    \A id \in TaskIds :
        (id \in DOMAIN tasks) ~>
            (id \notin DOMAIN tasks \/ tasks[id].status \in {"completed", "failed"})

\* C6 case: a worker has run to its end and its task is stored as finished
C6_Witness ==
    \E id \in DOMAIN tasks :
        /\ wpc[id].pc = "done"
        /\ tasks[id].status \in {"completed", "failed"}

\* C7: a result is stored only with status completed; a task whose analysis
\* failed ends failed, with no result and with an error record
C7_ResultOnlyWhenCompleted ==
    \A id \in DOMAIN tasks :
        /\ Present(tasks[id].result) => tasks[id].status = "completed"
        /\ (wpc[id].pc = "done" /\ Present(wfail[id])) =>
               /\ tasks[id].status = "failed"
               /\ ~Present(tasks[id].result)
               /\ Present(tasks[id].error)

\* C7 case: the analysis of a stored task failed after reporting progress
C7_Witness ==
    \E id \in DOMAIN tasks :
        /\ wpc[id].pc = "done"
        /\ Present(wfail[id])
        /\ tasks[id].progress = -1

\* the release scores of the window frames, 0-based position i at [i+1]
WindowScores == [i \in 1..Len(Window) |-> ReleaseScore(Window, i - 1)]

\* C8 (as claimed): release is the first-occurrence argmax of the release
\* score over the window frames at index >= lift_start.index; whenever both are
\* present, release.index >= lift_start.index
C8_ReleaseFromLiftStart ==
    (Returned /\ Has("release") /\ Has("lift_start")) =>
        /\ Idx("release") >= Idx("lift_start")
        /\ \A j \in Idx("lift_start")..(Len(frames) - 1) :
               WindowScores[j - AnchorIdx + 1]
                   <= WindowScores[Idx("release") - AnchorIdx + 1]

\* C8 (amended): release is the first-occurrence argmax of the release score
\* over all window frames, wherever lift_start is, and is absent exactly when
\* every window score is 0
C8_ReleaseFromWindowStart ==
    Returned =>
        IF \A i \in 1..Len(Window) : WindowScores[i] = 0
        THEN ~Has("release")
        ELSE /\ Has("release")
             /\ \A i \in 1..Len(Window) :
                    WindowScores[i] <= WindowScores[Idx("release") - AnchorIdx + 1]
             /\ \A i \in 1..(Idx("release") - AnchorIdx) :
                    WindowScores[i] < WindowScores[Idx("release") - AnchorIdx + 1]

\* C8 case: release lies before lift_start
C8_Witness ==
    /\ Returned
    /\ Has("release")
    /\ Has("lift_start")
    /\ Idx("release") < Idx("lift_start")

\* the three midpoint keyframes with their endpoints
MidpointPairs ==
    {<<"ball_rising_mid", "lift_start", "ball_at_chest">>,
     <<"power_transfer", "leg_power_start", "elbow_max_bend">>,
     <<"release_prepare", "wrist_snap", "release">>}

\* C9: a midpoint keyframe is present exactly when both endpoints are present
\* with idx1 < idx2, and then its index is floor((idx1 + idx2) / 2) on absolute
\* indices, so idx1 <= index < idx2
C9_Midpoints ==
    Returned =>
        \A m \in MidpointPairs :
            /\ Has(m[1]) <=> (Has(m[2]) /\ Has(m[3]) /\ Idx(m[2]) < Idx(m[3]))
            /\ Has(m[1]) =>
                   /\ 2 * Idx(m[1]) <= Idx(m[2]) + Idx(m[3])
                   /\ Idx(m[2]) + Idx(m[3]) < 2 * Idx(m[1]) + 2
                   /\ Idx(m[2]) <= Idx(m[1])
                   /\ Idx(m[1]) < Idx(m[3])

\* C9 case: behind a non-zero anchor, a midpoint whose endpoints have an odd
\* index sum
C9_Witness ==
    /\ Returned
    /\ AnchorIdx > 0
    /\ Has("ball_rising_mid")
    /\ (Idx("lift_start") + Idx("ball_at_chest")) % 2 = 1

\* right-wrist y of the window frames, 1.0 where the wrist is missing
WindowWristY == [i \in 1..Len(Window) |-> WristHeightOr1(Window[i])]

\* the window indices i with h[i] > h[i+1] > h[i+2] > h[i+3] and
\* h[i] - h[i+3] > 0.01
LiftCandidates ==
    {i \in 0..(Len(Window) - 4) :
        /\ WindowWristY[i+1] > WindowWristY[i+2]
        /\ WindowWristY[i+2] > WindowWristY[i+3]
        /\ WindowWristY[i+3] > WindowWristY[i+4]
        /\ WindowWristY[i+1] - WindowWristY[i+4] > 10}

\* C10: lift_start is the first window index i with
\* h[i] > h[i+1] > h[i+2] > h[i+3] and h[i] - h[i+3] > 0.01, absent when there
\* is none; the series 0.9, 0.85, 0.8, 0.75, 0.7 gives ball_lowest.index = 0
\* and lift_start.index = 0
C10_LiftStart ==
    Returned =>
        /\ IF LiftCandidates = {}
           THEN ~Has("lift_start")
           ELSE /\ Has("lift_start")
                /\ Idx("lift_start") - AnchorIdx \in LiftCandidates
                /\ \A i \in LiftCandidates : Idx("lift_start") - AnchorIdx <= i
        /\ frames = LiftExample =>
               AnchorIdx = 0 /\ Has("lift_start") /\ Idx("lift_start") = 0

\* C10 case: the example series has been analysed
C10_Witness ==
    /\ Returned
    /\ frames = LiftExample
    /\ Has("lift_start")

----------------------------------------------------------------------------

\* the joints that got an initiation frame
Initiated == {j \in Range(MonitoredJoints) : Present(force[1].initiation_times[j])}

\* C11: when the keyframes contain release, every joint's initiation frame
\* lies in [ball_lowest.index, release.index]
C11_ForceWithinRelease ==
    (kfpc = "analysed" /\ Has("release")) =>
        \A j \in Initiated :
            /\ AnchorIdx <= force[1].initiation_times[j][1]
            /\ force[1].initiation_times[j][1] <= Idx("release")

----------------------------------------------------------------------------

\* a group of joints none of which has an initiation frame
NoData(joints) == \A j \in joints : ~Present(marg[j])

AnyGroupWithoutData ==
    \/ NoData({"right_ankle", "right_knee"})
    \/ NoData({"right_hip"})
    \/ NoData({"right_shoulder", "right_elbow", "right_wrist"})

\* C12: pattern_type is incomplete_data exactly when the lower group, the hip
\* or the upper group has no initiation frame
C12_IncompleteIffGroupMissing ==
    mpc = "done" => ((mres = "incomplete_data") <=> AnyGroupWithoutData)

\* all three groups have data, hip and knee tie, and a pattern is returned
C12_Witness ==
    /\ mpc = "done"
    /\ ~AnyGroupWithoutData
    /\ ~Present(marg["right_ankle"])
    /\ marg["right_knee"] = marg["right_hip"]
    /\ mres = "lower_hip_upper"

----------------------------------------------------------------------------

\* the call got past both early exits: start < end and a frame with
\* velocity data in the range
EnergyAnalysed == mpc = "done" /\ mres.transfer_timing # "unknown"

\* the frames of the analysed range all have a detected pose
AllPoseInRange ==
    \A i \in EnergyRange(marg.fs, mres.start_frame, mres.end_frame) : marg.fs[i + 1].lm

\* C13: timing_difference is upper_peak_frame - lower_peak_frame, classified
\* sequential above 3, synchronized from 0 to 3, reversed below 0;
\* velocity_ratio is upper_peak / lower_peak, or 0 when lower_peak is 0; when
\* every frame of the range has a pose the peak frames are the first frames
\* holding the peak values; the example gives 2.5, 4 and sequential
C13_EnergyTransfer ==
    /\ EnergyAnalysed =>
        /\ mres.timing_difference = mres.upper_peak_frame - mres.lower_peak_frame
        /\ (mres.transfer_timing = "sequential") <=> (mres.timing_difference > 3)
        /\ (mres.transfer_timing = "synchronized") <=> (mres.timing_difference \in 0..3)
        /\ (mres.transfer_timing = "reversed") <=> (mres.timing_difference < 0)
        /\ IF mres.lower_body_peak_velocity = 0
           THEN mres.velocity_ratio.num = 0
           ELSE mres.velocity_ratio.num * mres.lower_body_peak_velocity
                    = mres.upper_body_peak_velocity * mres.velocity_ratio.den
        /\ \A i \in EnergyRange(marg.fs, mres.start_frame, mres.end_frame) :
              marg.fs[i + 1].lm =>
                /\ MeanPositive6(marg.fs[i + 1], lower_body_joints)
                       <= mres.lower_body_peak_velocity
                /\ MeanPositive6(marg.fs[i + 1], upper_body_joints)
                       <= mres.upper_body_peak_velocity
        /\ AllPoseInRange =>
              /\ MeanPositive6(marg.fs[mres.lower_peak_frame + 1], lower_body_joints)
                     = mres.lower_body_peak_velocity
              /\ MeanPositive6(marg.fs[mres.upper_peak_frame + 1], upper_body_joints)
                     = mres.upper_body_peak_velocity
    /\ (mpc = "done" /\ marg = EnergyExample) =>
        /\ mres.lower_body_peak_velocity = 6 * 100
        /\ mres.upper_body_peak_velocity = 6 * 250
        /\ mres.lower_peak_frame = 10
        /\ mres.upper_peak_frame = 14
        /\ 2 * mres.velocity_ratio.num = 5 * mres.velocity_ratio.den
        /\ mres.timing_difference = 4
        /\ mres.transfer_timing = "sequential"

\* a bounded input whose upper peak trails the lower peak by exactly 3 frames
C13_Witness ==
    /\ EnergyAnalysed
    /\ marg # EnergyExample
    /\ AllPoseInRange
    /\ mres.lower_body_peak_velocity > 0
    /\ mres.timing_difference = 3
    /\ mres.transfer_timing = "synchronized"

----------------------------------------------------------------------------

RECURSIVE GapSum(_, _)
\* the sum of the frame gaps of the first n phases
GapSum(phases, n) ==
    IF n = 0 THEN 0 ELSE phases[n].value.frames + GapSum(phases, n - 1)

RhythmIndices == {marg.keyframes[i].index : i \in 1..Len(marg.keyframes)}

RhythmSpan ==
    (CHOOSE m \in RhythmIndices : \A x \in RhythmIndices : x <= m)
    - (CHOOSE m \in RhythmIndices : \A x \in RhythmIndices : m <= x)

\* C14: for a non-empty keyframe set and fps > 0 there is one phase per
\* adjacent pair of sorted keyframes, no gap is negative, the gaps sum to
\* largest index - smallest index, and total_duration is that span / fps
C14_RhythmPhases ==
    (mpc = "done" /\ marg.keyframes # <<>> /\ marg.fps > 0) =>
        /\ ~mres.raised
        /\ ~mres.empty
        /\ mres.phase_count = Len(marg.keyframes) - 1
        /\ Len(mres.phase_durations) = mres.phase_count
        /\ \A i \in 1..Len(mres.phase_durations) :
              mres.phase_durations[i].value.frames >= 0
        /\ GapSum(mres.phase_durations, Len(mres.phase_durations)) = RhythmSpan
        /\ mres.total_duration = [num |-> RhythmSpan, den |-> marg.fps]

\* three keyframes inserted out of index order, two of them on one index
C14_Witness ==
    /\ mpc = "done"
    /\ marg.fps > 0
    /\ Len(marg.keyframes) = 3
    /\ marg.keyframes[1].index > marg.keyframes[2].index
    /\ marg.keyframes[2].index = marg.keyframes[3].index
    /\ mres.phase_count = 2
    /\ mres.total_duration.num > 0

----------------------------------------------------------------------------

\* the number of frames in which a pose was detected
UsableFrames == Cardinality({i \in 1..Len(frames) : frames[i].lm})

\* C15: a run on frames none of which is usable (fewer than any positive
\* minimum) fails with InsufficientFramesError
C15_InsufficientFramesError ==
    (kfpc # "input" /\ UsableFrames = 0) =>
        /\ kfres.raised
        /\ DetectKeyframesError(frames) = "InsufficientFramesError"

----------------------------------------------------------------------------

\* the tasks whose worker ended in an except clause and that are still stored
FailedRuns ==
    {id \in DOMAIN tasks : At(id, "done") /\ Present(wfail[id])}

\* C16: a VideoAnalysisError ends the task failed with error type
\* VideoAnalysisError and the exception's user_message as message; any other
\* exception ends it failed with error type UnexpectedError, a technical
\* message and a separate user-facing message
C16_ErrorKinds ==
    \A id \in FailedRuns :
        LET task == tasks[id]
        IN  /\ task.status = "failed"
            /\ Present(task.error)
            /\ IF wfail[id][1] = "VideoAnalysisError"
               THEN /\ task.error[1].type = "VideoAnalysisError"
                    /\ task.error[1].message = "user_message"
                    /\ task.message = "user_message"
               ELSE /\ task.error[1].type = "UnexpectedError"
                    /\ task.error[1].message = "technical_message"
                    /\ task.error[1].user_message = "generic_user_message"
                    /\ task.error[1].user_message # task.error[1].message

\* one task failed on a VideoAnalysisError and another on another exception
C16_Witness ==
    \E a, b \in FailedRuns :
        /\ wfail[a][1] = "VideoAnalysisError"
        /\ wfail[b][1] = "Exception"
        /\ tasks[a].error[1].type # tasks[b].error[1].type

\* C17: the stored progress of every task is a percentage from 0 to 100
C17_ProgressIsPercentage ==
    \A id \in DOMAIN tasks : tasks[id].progress \in 0..100

----------------------------------------------------------------------------

\* C18: the first element of the series calculate_velocity returns is 0
C18_FirstVelocityZero ==
    (mpc = "done" /\ Len(marg.positions) > 0) => mres[1] = 0

----------------------------------------------------------------------------

\* window index at which the search for ball_at_chest starts
ChestSearchStart ==
    (IF Has("lift_start") THEN Idx("lift_start") ELSE AnchorIdx) - AnchorIdx

\* window frames from the search start on that have the wrist, both
\* shoulders and both hips
ChestCandidates ==
    {i \in ChestSearchStart..(Len(Window) - 1) : HeightValid(Window[i + 1])}

\* C19: ball_at_chest is the earliest candidate frame from the search start
\* on, the start itself included, with the least distance to chest height
C19_ChestIsNearest ==
    (Returned /\ Has("ball_at_chest")) =>
        LET chest == Idx("ball_at_chest") - AnchorIdx
        IN  /\ chest \in ChestCandidates
            /\ \A j \in ChestCandidates :
                  /\ Distance(Window[chest + 1], "chest") <= Distance(Window[j + 1], "chest")
                  /\ Distance(Window[j + 1], "chest") = Distance(Window[chest + 1], "chest")
                        => chest <= j

\* C20: ball_at_chest is not after ball_at_shoulder and lift_start is not
\* after ball_at_chest, and _validate_order gives neither the
\* chest-after-shoulder nor the anchor-after-lift_start warning
C20_ChestShoulderOrder ==
    Returned =>
        /\ (Has("ball_at_chest") /\ Has("ball_at_shoulder"))
              => Idx("ball_at_chest") <= Idx("ball_at_shoulder")
        /\ (Has("lift_start") /\ Has("ball_at_chest"))
              => Idx("lift_start") <= Idx("ball_at_chest")
        /\ <<"order", "ball_at_chest", "ball_at_shoulder">> \notin ValidateOrder(kfres.kfs)
        /\ <<"order", "ball_lowest", "lift_start">> \notin ValidateOrder(kfres.kfs)

\* lift_start, ball_at_chest and ball_at_shoulder on three different frames
\* behind an anchor that is not the first frame
C20_Witness ==
    /\ Returned
    /\ AnchorIdx > 0
    /\ Has("lift_start") /\ Has("ball_at_chest") /\ Has("ball_at_shoulder")
    /\ Idx("lift_start") < Idx("ball_at_chest")
    /\ Idx("ball_at_chest") < Idx("ball_at_shoulder")

----------------------------------------------------------------------------

\* the velocity list of a joint over the analysis range of the last call
RangeVelocities(j) ==
    ForceVelocities(frames, j, force[1].start_frame, force[1].end_frame)

\* the list positions after the first, the last one included, at which the
\* velocity rose by the acceleration threshold and reaches the movement
\* threshold
AccelerationPositions(v) ==
    {k \in 2..Len(v) : /\ v[k] - v[k - 1] >= acceleration_threshold
                       /\ v[k] >= movement_threshold}

\* C21: for each monitored joint whose range has a frame, after the first,
\* with a rise of at least 50 reaching at least 20 (the last frame of the
\* range included), the initiation frame is the first such frame
C21_InitiationIsFirstAcceleration ==
    (kfpc = "analysed") =>
        \A j \in Range(MonitoredJoints) :
            LET v == RangeVelocities(j)
            IN  (Len(v) >= 3 /\ AccelerationPositions(v) # {}) =>
                    force[1].initiation_times[j] =
                        Some(force[1].start_frame
                             + SetMin(AccelerationPositions(v)) - 1)

----------------------------------------------------------------------------

\* the groups' earliest initiation frames in the argument of the call
LowerStart == SetMin(GroupFrames(marg, {"right_ankle", "right_knee"}))

HipStart == marg["right_hip"][1]

UpperStart ==
    SetMin(GroupFrames(marg, {"right_shoulder", "right_elbow", "right_wrist"}))

\* all three groups have data, the lower group's start is the earliest of
\* the three and the upper group's start trails it by at most 2 frames
LowerLeadsClosely ==
    /\ mpc = "done"
    /\ ~AnyGroupWithoutData
    /\ LowerStart <= HipStart
    /\ LowerStart <= UpperStart
    /\ UpperStart - LowerStart <= 2

\* C22 as stated: whenever the lower group's start is the earliest and the
\* upper group trails it by at most 2 frames, the pattern is
\* lower_synchronized
C22_LowerSynchronizedWheneverLowerLeads ==
    LowerLeadsClosely => mres = "lower_synchronized"

\* C22 amended: in that situation the pattern is lower_synchronized when the
\* upper group starts strictly before the hip, and lower_hip_upper when the
\* hip starts no later than the upper group
C22_LowerSynchronizedWhenUpperBeforeHip ==
    LowerLeadsClosely =>
        mres = IF UpperStart < HipStart THEN "lower_synchronized"
               ELSE "lower_hip_upper"

\* the lower group leads, the upper group trails it by exactly 2 frames and
\* starts before the hip: lower_synchronized is returned
C22_Witness ==
    /\ LowerLeadsClosely
    /\ UpperStart = LowerStart + 2
    /\ UpperStart < HipStart
    /\ mres = "lower_synchronized"

----------------------------------------------------------------------------

(* _detect_wrist_snap called on any window of frames with landmarks *)

MaxSnapFrames == 4

\* frames with wrist and elbow, with the wrist only, and with neither
SnapFrameSet ==
    {ArmFrame(600, 500), ArmFrame(450, 500), WristFrame(600), BareFrame}

SnapWindows == UNION {[1..n -> SnapFrameSet] : n \in 0..MaxSnapFrames}

InitSnap ==
    /\ KfIdle
    /\ TmInit
    /\ mpc = "input"
    /\ marg \in SnapWindows
    /\ mres = <<>>

CallDetectWristSnap ==
    /\ mpc = "input"
    /\ mres' = DetectWristSnap(marg)
    /\ mpc' = "done"
    /\ UNCHANGED <<marg, kfvars, tmvars>>

SpecSnap == InitSnap /\ [][CallDetectWristSnap]_vars

\* window-relative indices of the second half of the window at which both
\* the right wrist and the right elbow are present
SnapHalf ==
    {i \in (Len(marg) \div 2)..(Len(marg) - 1) :
        Present(marg[i + 1].rw) /\ Present(marg[i + 1].re)}

\* wrist_y - elbow_y of the window frame at relative index i
SnapDiff(i) == marg[i + 1].rw[1] - marg[i + 1].re[1]

\* C23: wrist_snap, when produced, is in the second half of the window on a
\* frame that has both right wrist and right elbow, and it is the earliest
\* frame of that half maximizing wrist_y - elbow_y among such frames
C23_WristSnapOnLandmarks ==
    (mpc = "done" /\ Present(mres)) =>
        LET k == mres[1]
        IN  /\ k \in SnapHalf
            /\ \A i \in SnapHalf :
                  /\ SnapDiff(i) <= SnapDiff(k)
                  /\ (i < k => SnapDiff(i) < SnapDiff(k))

----------------------------------------------------------------------------
(* analyze_frames from the analysed frames on: _calculate_temporal_metrics *)
(* stores the wrist velocities of calculate_velocity in the frames, then   *)
(* detect_keyframes reads them in the release score.                       *)

MaxReleaseFrames == 3

\* a right wrist landmark of the pose detector in a 10 x 10 px image:
\* x = 0.3 k, y = 0.4 k, x_pixel = int(x * width), y_pixel = int(y * height)
WristLandmark(k) == [y |-> 400 * k, x_pixel |-> 3 * k, y_pixel |-> 4 * k]

\* an analysed frame with pose: the right wrist or none, the elbow angle or
\* none
AnalysedFrames ==
    [wrist : {None} \cup {Some(WristLandmark(k)) : k \in 0..2},
     ea : {None, Some(90), Some(100)}]

InitRelease ==
    /\ KfIdle
    /\ TmInit
    /\ mpc = "input"
    /\ \E n \in 0..MaxReleaseFrames :
          marg \in [frames : [1..n -> AnalysedFrames], fps : {30}]
    /\ mres = <<>>

\* positions.append(frame["landmarks"].get(joint_name)) for the right wrist
WristPositions(fs) ==
    [i \in 1..Len(fs) |->
        IF Present(fs[i].wrist)
        THEN Some([x_pixel |-> fs[i].wrist[1].x_pixel,
                   y_pixel |-> fs[i].wrist[1].y_pixel])
        ELSE None]

\* the frame detect_keyframes reads: frame["velocities"]["right_wrist"] is
\* velocities[i], kept times 6.  The release score tests its sign and caps
\* its term at 25 from 0.1 px/s on, which every non-zero multiple of 1/6
\* exceeds, so the score of the stored value is the score of the velocity.
TemporalFrame(f, v6) ==
    [BareFrame EXCEPT !.rw = IF Present(f.wrist) THEN Some(f.wrist[1].y) ELSE None,
                      !.ea = f.ea,
                      !.vw = Some(v6)]

TemporalFrames(fs, velocities) ==
    [i \in 1..Len(fs) |-> TemporalFrame(fs[i], velocities[i])]

\* self._calculate_temporal_metrics(fps), for the right wrist
CallCalculateTemporalMetrics ==
    /\ mpc = "input"
    /\ mres' = [velocities |->
                   CalculateVelocity6(WristPositions(marg.frames), marg.fps,
                                      DefaultSmoothing),
                keyframes |-> NoResult]
    /\ mpc' = "metrics"
    /\ UNCHANGED <<marg, kfvars, tmvars>>

\* keyframes = self._detect_keyframes()
CallDetectKeyframesOfAnalysis ==
    /\ mpc = "metrics"
    /\ mres' = [mres EXCEPT !.keyframes =
                   DetectKeyframes(TemporalFrames(marg.frames, mres.velocities))]
    /\ mpc' = "done"
    /\ UNCHANGED <<marg, kfvars, tmvars>>

NextRelease == CallCalculateTemporalMetrics \/ CallDetectKeyframesOfAnalysis

SpecRelease == InitRelease /\ [][NextRelease]_vars

\* the frames detect_keyframes was called on, from the anchor on
AnalysisWindow ==
    Clip(TemporalFrames(marg.frames, mres.velocities),
         KfIndex(mres.keyframes.kfs, "ball_lowest"))

\* 40 * (1 - wrist_y) + min(35, max(0, 3.5 * elbow-angle delta)) of window
\* frame i (0-based), times 2000
HeightAndElbowScore(fs, i) ==
    80 * (1000 - WristHeightOr1(fs[i + 1]))
    + Min2(35 * 2000,
           Max2(0, 7000 * AngularVelocities([k \in 1..Len(fs) |-> ElbowAngle(fs[k])])[i + 1]))

HeightAndElbowScores ==
    [i \in 1..Len(AnalysisWindow) |-> HeightAndElbowScore(AnalysisWindow, i - 1)]

\* C24: every velocity calculate_velocity stores is >= 0, and release is the
\* first argmax over the window of the score made of the wrist height and
\* the elbow extension alone, absent exactly when that score is 0 everywhere
C24_ReleaseIgnoresWristVelocity ==
    /\ mpc \in {"metrics", "done"} =>
          \A i \in 1..Len(mres.velocities) : mres.velocities[i] >= 0
    /\ (mpc = "done" /\ ~mres.keyframes.raised) =>
          IF \A i \in 1..Len(AnalysisWindow) : HeightAndElbowScores[i] = 0
          THEN ~KfHas(mres.keyframes.kfs, "release")
          ELSE /\ KfHas(mres.keyframes.kfs, "release")
               /\ KfIndex(mres.keyframes.kfs, "release")
                     = KfIndex(mres.keyframes.kfs, "ball_lowest")
                       + ArgMax(HeightAndElbowScores)

\* the wrist moved (a velocity is positive), the elbow extended, and release
\* was placed on a frame other than the first one of the window
C24_Witness ==
    /\ mpc = "done"
    /\ ~mres.keyframes.raised
    /\ \E i \in 1..Len(mres.velocities) : mres.velocities[i] > 0
    /\ KfHas(mres.keyframes.kfs, "release")
    /\ KfIndex(mres.keyframes.kfs, "release")
          > KfIndex(mres.keyframes.kfs, "ball_lowest")

----------------------------------------------------------------------------

\* the hip leads: strictly earlier than the lower group, not later than the
\* upper group
HipLeads == HipStart < LowerStart /\ HipStart <= UpperStart

\* the upper group leads: strictly earlier than both others
UpperLeads == UpperStart < LowerStart /\ UpperStart < HipStart

\* C25: _analyze_movement_pattern never returns hip_first or unknown; with
\* data in all three groups the hip leads exactly when it is strictly earlier
\* than the lower group and no later than the upper one, and is then
\* classified hip_lower_upper (lower no later than upper) or hip_upper_lower;
\* the upper group leads exactly when strictly earlier than both others
C25_NoHipFirstNoUnknown ==
    mpc = "done" =>
        /\ mres \notin {"hip_first", "unknown"}
        /\ ~AnyGroupWithoutData =>
              /\ mres = "hip_lower_upper" <=> (HipLeads /\ LowerStart <= UpperStart)
              /\ mres = "hip_upper_lower" <=> (HipLeads /\ UpperStart < LowerStart)
              /\ mres = "upper_first" <=> UpperLeads
              /\ mres \in {"lower_hip_upper", "lower_synchronized", "lower_first"}
                    <=> (LowerStart <= HipStart /\ LowerStart <= UpperStart)

\* hip and upper group tie ahead of the lower group: the hip leads
C25_Witness ==
    /\ mpc = "done"
    /\ ~AnyGroupWithoutData
    /\ HipStart = UpperStart
    /\ HipStart < LowerStart
    /\ mres = "hip_upper_lower"

----------------------------------------------------------------------------

\* the midpoint keyframes
MidpointNames == {"ball_rising_mid", "power_transfer", "release_prepare"}

----------------------------------------------------------------------------

\* the task was created and is no longer stored: delete_task returned True
\* for it and get_task returns None
Deleted(id) == id \in created /\ id \notin DOMAIN tasks

\* C27: once a task is deleted no later step stores it again, whatever the
\* worker thread of the task does afterwards, and with fairly scheduled
\* workers the worker of a deleted task runs to its end
C27_DeletedStaysDeleted ==
    /\ [][\A id \in TaskIds : Deleted(id) => Deleted(id)']_vars
    /\ \A id \in TaskIds :
          Deleted(id) ~> (id \in created /\ wpc[id].pc = "done")

\* a task is deleted while its worker is inside the callback, with progress
\* reports still to come
C27_Witness ==
    \E id \in TaskIds :
        /\ Deleted(id)
        /\ wpc[id].pc = "callback"
        /\ wpc[id].step > 1
        /\ wpc[id].step < Len(ProgressSteps)

----------------------------------------------------------------------------

\* the stored task is older than the cutoff and has finished
OldAndFinished(id, cutoff) ==
    id < cutoff /\ tasks[id].status \in {"completed", "failed"}

\* C28: a call of cleanup_old_tasks removes exactly the stored tasks that
\* are older than the cutoff and completed or failed; a pending or
\* processing task stays whatever its age, and every task that stays is
\* unchanged
C28_CleanupRemovesOldFinished ==
    [][\A cutoff \in 1..(MaxTasks + 1) :
          CleanupOldTasks(cutoff) =>
              /\ \A id \in DOMAIN tasks :
                    id \notin DOMAIN tasks' <=> OldAndFinished(id, cutoff)
              /\ \A id \in DOMAIN tasks :
                    tasks[id].status \in {"pending", "processing"} =>
                        id \in DOMAIN tasks'
              /\ \A id \in DOMAIN tasks' :
                    id \in DOMAIN tasks /\ tasks'[id] = tasks[id]]_vars

\* the first task has finished and is no longer stored, while the second,
\* still processing, is stored
C28_Witness ==
    /\ Deleted(1)
    /\ wpc[1].pc = "done"
    /\ 2 \in DOMAIN tasks
    /\ tasks[2].status = "processing"

----------------------------------------------------------------------------

\* the frame at this absolute index has velocity data and the group's
\* per-frame average velocity there equals the peak
PeakAt(index, joints, peak) ==
    /\ index < Len(marg.fs)
    /\ marg.fs[index + 1].lm
    /\ MeanPositive6(marg.fs[index + 1], joints) = peak

\* C29: lower_peak_frame and upper_peak_frame are absolute indices of frames
\* at which the group's per-frame average velocity equals the reported peak,
\* also when frames of the analysed range have no pose
C29_PeakFramesAreAbsolute ==
    EnergyAnalysed =>
        /\ PeakAt(mres.lower_peak_frame, lower_body_joints,
                  mres.lower_body_peak_velocity)
        /\ PeakAt(mres.upper_peak_frame, upper_body_joints,
                  mres.upper_body_peak_velocity)

----------------------------------------------------------------------------

\* C30: detect_keyframes on an empty frame sequence returns without raising,
\* and what it returns holds only the fallback ball_lowest keyframe at
\* index 0 (whose frame_data is {})
C30_EmptySequenceReturnsAnchor ==
    (kfpc \in {"done", "analysed"} /\ frames = <<>>) =>
        /\ ~kfres.raised
        /\ kfres.kfs = <<Kf("ball_lowest", 0, -1)>>

====
